---- MODULE Spec2Model ----
\* Model of src/app.py: ResumeBuilder.create_docx_resume, _format_job_entry
\* and the pipeline of main().  Text is a sequence of one-character strings.
EXTENDS Integers, Sequences, FiniteSets, TLC

VARIABLES pc, content, sections, idx, doc, content_lines, li, current_entry,
          fmt_calls, body_indent, txt_file, docx_file, pdf_file, flat_file,
          printed, error_reported, parse_calls, gen_calls, parse_ok, gen_ok,
          flatten_raised, t_in, t_once, t_twice

vars == <<pc, content, sections, idx, doc, content_lines, li, current_entry,
          fmt_calls, body_indent, txt_file, docx_file, pdf_file, flat_file,
          printed, error_reported, parse_calls, gen_calls, parse_ok, gen_ok,
          flatten_raised, t_in, t_once, t_twice>>

\* ---------------------------------------------------------------- bounds
MaxLines == 4
MaxTitleParts == 2

\* ------------------------------------------------------------ characters
UpperSeq == <<"A","B","C","D","E","F","G","H","I","J","K","L","M",
              "N","O","P","Q","R","S","T","U","V","W","X","Y","Z">>
LowerSeq == <<"a","b","c","d","e","f","g","h","i","j","k","l","m",
              "n","o","p","q","r","s","t","u","v","w","x","y","z">>
UpperSet == {UpperSeq[i] : i \in 1..26}
LowerSet == {LowerSeq[i] : i \in 1..26}
DigitSet == {"0","1","2","3","4","5","6","7","8","9"}

\* \s of the re module and the characters str.strip() removes
IsSpace(c) == c \in {" ", "\n", "\t", "\r"}
IsLetter(c) == c \in UpperSet \cup LowerSet

\* str.upper() on one character
UpperChar(c) == IF c \in LowerSet
                THEN UpperSeq[CHOOSE i \in 1..26 : LowerSeq[i] = c]
                ELSE c

SetMin(S) == CHOOSE x \in S : \A y \in S : x <= y
SetMax(S) == CHOOSE x \in S : \A y \in S : x >= y

\* ---------------------------------------------------- str methods used
StrUpper(s) == IF s = <<>> THEN <<>> ELSE [i \in 1..Len(s) |-> UpperChar(s[i])]

StrStrip(s) ==
    LET keep == {i \in 1..Len(s) : ~IsSpace(s[i])}
    IN IF keep = {} THEN <<>> ELSE SubSeq(s, SetMin(keep), SetMax(keep))

\* w in s
StrContains(s, w) ==
    \E i \in 1..(Len(s) - Len(w) + 1) : SubSeq(s, i, i + Len(w) - 1) = w

\* index of the first c in s, 0 when there is none
StrFind(s, c) ==
    LET at == {i \in 1..Len(s) : s[i] = c}
    IN IF at = {} THEN 0 ELSE SetMin(at)

\* s.split(c): every occurrence splits, "" gives [""]
RECURSIVE StrSplit(_, _)
StrSplit(s, c) ==
    LET k == StrFind(s, c)
    IN IF k = 0 THEN <<s>>
       ELSE <<SubSeq(s, 1, k - 1)>> \o StrSplit(SubSeq(s, k + 1, Len(s)), c)

\* s.split(c, 1) for an s that holds c
StrSplitOnce(s, c) ==
    LET k == StrFind(s, c)
    IN <<SubSeq(s, 1, k - 1), SubSeq(s, k + 1, Len(s))>>

\* ------------------------------------------------------------- literals
EXPERIENCE == <<"E","X","P","E","R","I","E","N","C","E">>
EDUCATION == <<"E","D","U","C","A","T","I","O","N">>
SKILLS == <<"S","K","I","L","L","S">>
WORK_EXPERIENCE == <<"W","O","R","K"," ">> \o EXPERIENCE
\* the bullet glyph of line 182 stands as one character, then a space
BulletPrefix == <<"(bullet)", " ">>
DatesPrefix == <<" ", "|", " ">>
InchQuarter == 25
\* a length set with Inches(), in hundredths of an inch, and a length left unset
Inches(n) == <<n>>
NoIndent == <<>>

\* ---------------------------------------------------- section splitting
\* (?=[A-Z][A-Z\s]+:) at position q of s
HeadingAhead(s, q) ==
    /\ q <= Len(s)
    /\ s[q] \in UpperSet
    /\ LET stop == {r \in (q + 1)..Len(s) : ~(s[r] \in UpperSet \/ IsSpace(s[r]))}
       IN /\ stop # {}
          /\ SetMin(stop) >= q + 2
          /\ s[SetMin(stop)] = ":"

SplitPoints(s) == {p \in 1..Len(s) : s[p] = "\n" /\ HeadingAhead(s, p + 1)}

RECURSIVE SplitFrom(_, _)
SplitFrom(s, from) ==
    LET later == {p \in SplitPoints(s) : p >= from}
    IN IF later = {} THEN <<SubSeq(s, from, Len(s))>>
       ELSE <<SubSeq(s, from, SetMin(later) - 1)>> \o SplitFrom(s, SetMin(later) + 1)

\* re.split(r'\n(?=[A-Z][A-Z\s]+:)', content)
SplitSections(s) == SplitFrom(s, 1)

\* ---------------------------------------------------- title normalizing
NormalizeTitle_Mixed(t) ==
    LET u == StrUpper(StrStrip(t))
    IN IF StrContains(u, EXPERIENCE) THEN WORK_EXPERIENCE
       ELSE IF StrContains(u, EDUCATION) THEN EDUCATION
       ELSE IF StrContains(u, SKILLS) THEN SKILLS
       ELSE StrStrip(t)

NormalizeTitle(t) ==
    LET u == StrUpper(StrStrip(t))
    IN IF StrContains(u, EXPERIENCE) THEN WORK_EXPERIENCE
       ELSE IF StrContains(u, EDUCATION) THEN EDUCATION
       ELSE IF StrContains(u, SKILLS) THEN SKILLS
       ELSE u

\* ------------------------------------------------------------ job entry
\* the pattern with word characters and no whitespace needed ahead of '|'
IsEntryStart_Word(line) ==
    LET k == StrFind(line, "|")
    IN /\ k >= 2
       /\ \A i \in 1..(k - 1) :
            IsLetter(line[i]) \/ IsSpace(line[i]) \/ line[i] \in DigitSet \/ line[i] = "_"
       /\ k + 1 <= Len(line)
       /\ IsSpace(line[k + 1])

\* re.match(r'^[A-Za-z\s]+\s+\|\s+', line)
IsEntryStart(line) ==
    LET k == StrFind(line, "|")
    IN /\ k >= 3
       /\ \A i \in 1..(k - 1) : IsLetter(line[i]) \/ IsSpace(line[i])
       /\ IsSpace(line[k - 1])
       /\ k + 1 <= Len(line)
       /\ IsSpace(line[k + 1])

Run(text, bold, italic) == [text |-> text, bold |-> bold, italic |-> italic]
Block(style, runs) == [style |-> style, runs |-> runs]
HeadingBlock(title) == Block("ATS Heading", <<Run(title, FALSE, FALSE)>>)
BodyBlock(text) == Block("ATS Body", <<Run(text, FALSE, FALSE)>>)
Separator == Block("Normal", <<>>)

\* the company/dates paragraph of _format_job_entry
HeaderBlock(line) ==
    LET header == StrSplit(line, "|")
        company == StrStrip(header[1])
        dates == IF Len(header) > 1 THEN StrStrip(header[2]) ELSE <<>>
    IN Block("ATS Body",
             <<Run(company, TRUE, FALSE)>> \o
             (IF dates # <<>> THEN <<Run(DatesPrefix \o dates, FALSE, FALSE)>> ELSE <<>>))

TitleBlock(line) == Block("ATS Body", <<Run(StrStrip(line), FALSE, TRUE)>>)
BulletBlock(line) == BodyBlock(BulletPrefix \o StrStrip(line))

RECURSIVE BulletBlocks(_)
BulletBlocks(lines) ==
    IF lines = <<>> THEN <<>>
    ELSE (IF StrStrip(Head(lines)) # <<>> THEN <<BulletBlock(Head(lines))>> ELSE <<>>)
         \o BulletBlocks(Tail(lines))

\* blocks _format_job_entry(doc, entry_lines) appends
FormatJobEntry(entry_lines) ==
    <<HeaderBlock(entry_lines[1])>>
    \o (IF Len(entry_lines) > 1 THEN <<TitleBlock(entry_lines[2])>> ELSE <<>>)
    \o BulletBlocks(SubSeq(entry_lines, 3, Len(entry_lines)))

\* _format_job_entry writes the indent on the paragraph's style
EntrySetsIndent(entry_lines) ==
    \E k \in 3..Len(entry_lines) : StrStrip(entry_lines[k]) # <<>>

IndentAfter(entry_lines, indent) ==
    IF EntrySetsIndent(entry_lines) THEN <<Inches(InchQuarter), Inches(0 - InchQuarter)>> ELSE indent

\* the body paragraphs of a section other than WORK EXPERIENCE
RECURSIVE BodyBlocks(_)
BodyBlocks(lines) ==
    IF lines = <<>> THEN <<>>
    ELSE (IF StrStrip(Head(lines)) # <<>> THEN <<BodyBlock(StrStrip(Head(lines)))>> ELSE <<>>)
         \o BodyBlocks(Tail(lines))

\* ------------------------------------------------------ generated texts
L_empty == <<>>
L_plain == <<" ","J","o">>
L_contact == <<"T","e","l",":"," ","5">>
L_skills == SKILLS \o <<":"," ","x">>
L_work == WORK_EXPERIENCE \o <<":">>
L_entry == <<"A","b"," ","|"," ","2","0">>
L_digit == <<"A","1"," ","|"," ","x">>
L_pipes == <<"A"," ","|"," ","B"," ","|"," ","C">>

SampleLines == {L_empty, L_plain, L_contact, L_skills, L_work, L_entry, L_digit, L_pipes}

RECURSIVE JoinLines(_)
JoinLines(ls) ==
    IF Len(ls) = 1 THEN ls[1]
    ELSE ls[1] \o <<"\n">> \o JoinLines(Tail(ls))

\* the texts the generation service may return
Contents == {JoinLines(ls) : ls \in UNION {[1..n -> SampleLines] : n \in 1..MaxLines}}

T_exp == <<"e","x","p","e","r","i","e","n","c","e">>
T_work == <<"W","o","r","k">>
T_other == <<"x","1">>
TitleParts == {EXPERIENCE, T_exp, EDUCATION, SKILLS, T_work, T_other, <<" ">>}

RECURSIVE Concat(_)
Concat(ps) == IF ps = <<>> THEN <<>> ELSE Head(ps) \o Concat(Tail(ps))

Titles == {Concat(ps) : ps \in UNION {[1..n -> TitleParts] : n \in 1..MaxTitleParts}}

\* ----------------------------------------------------------------- Init
Init ==
    /\ pc = "start"
    /\ content = <<>>
    /\ sections = <<>>
    /\ idx = 0
    /\ doc = <<>>
    /\ content_lines = <<>>
    /\ li = 0
    /\ current_entry = <<>>
    /\ fmt_calls = <<>>
    /\ body_indent = <<NoIndent, NoIndent>>
    /\ txt_file = FALSE
    /\ docx_file = FALSE
    /\ pdf_file = "none"
    /\ flat_file = FALSE
    /\ printed = FALSE
    /\ error_reported = FALSE
    /\ parse_calls = 0
    /\ gen_calls = 0
    /\ parse_ok = FALSE
    /\ gen_ok = FALSE
    /\ flatten_raised = FALSE
    /\ t_in = <<>>
    /\ t_once = <<>>
    /\ t_twice = <<>>

docVars == <<content, sections, idx, doc, content_lines, li, current_entry,
             fmt_calls, body_indent>>
fileVars == <<txt_file, docx_file, pdf_file, flat_file>>
callVars == <<parse_calls, gen_calls, parse_ok, gen_ok>>
titleVars == <<t_in, t_once, t_twice>>

\* ------------------------------------------------------- main, pipeline
\* load_dotenv / os.getenv: without a key main returns
LoadEnv ==
    /\ pc = "start"
    /\ \E has_key \in BOOLEAN : pc' = IF has_key THEN "test_libreoffice" ELSE "done"
    /\ UNCHANGED <<docVars, fileVars, callVars, titleVars, printed, error_reported,
                   flatten_raised>>

\* test_libreoffice(): without a working installation main returns
TestLibreOffice ==
    /\ pc = "test_libreoffice"
    /\ \E found \in BOOLEAN : pc' = IF found THEN "load_profile" ELSE "done"
    /\ UNCHANGED <<docVars, fileVars, callVars, titleVars, printed, error_reported,
                   flatten_raised>>

\* load_profile(): open/json.load may raise into the outer except
LoadProfile ==
    /\ pc = "load_profile"
    /\ \E ok \in BOOLEAN :
         /\ pc' = IF ok THEN "read_posting" ELSE "done"
         /\ error_reported' = IF ok THEN error_reported ELSE TRUE
    /\ UNCHANGED <<docVars, fileVars, callVars, titleVars, printed, flatten_raised>>

\* the job posting file: missing, unreadable or empty makes main return
ReadJobPosting ==
    /\ pc = "read_posting"
    /\ \E outcome \in {"ok", "missing", "empty", "unreadable"} :
         pc' = IF outcome = "ok" THEN "parse_posting" ELSE "done"
    /\ UNCHANGED <<docVars, fileVars, callVars, titleVars, printed, error_reported,
                   flatten_raised>>

\* parse_job_posting(): the service call or json.loads may raise
ParseJobPosting ==
    /\ pc = "parse_posting"
    /\ parse_calls' = parse_calls + 1
    /\ \E outcome \in {"ok", "service_error", "malformed"} :
         /\ parse_ok' = (outcome = "ok")
         /\ pc' = IF outcome = "ok" THEN "generate" ELSE "done"
         /\ error_reported' = IF outcome = "ok" THEN error_reported ELSE TRUE
    /\ UNCHANGED <<docVars, fileVars, gen_calls, gen_ok, titleVars, printed,
                   flatten_raised>>

\* generate_tailored_resume(): returns a text or raises
GenerateTailoredResume ==
    /\ pc = "generate"
    /\ gen_calls' = gen_calls + 1
    /\ \/ /\ \E text \in Contents : content' = text
          /\ gen_ok' = TRUE
          /\ pc' = "write_txt"
          /\ UNCHANGED error_reported
       \/ /\ gen_ok' = FALSE
          /\ pc' = "done"
          /\ error_reported' = TRUE
          /\ UNCHANGED content
    /\ UNCHANGED <<sections, idx, doc, content_lines, li, current_entry, fmt_calls,
                   body_indent, fileVars, parse_calls, parse_ok, titleVars, printed,
                   flatten_raised>>

\* the text file is written before the parsing result is known
WriteTextFile_Early ==
    /\ pc \in {"parse_posting", "write_txt"}
    /\ txt_file' = TRUE
    /\ pc' = IF pc = "write_txt" THEN "docx_begin" ELSE pc
    /\ txt_file = FALSE
    /\ UNCHANGED <<docVars, docx_file, pdf_file, flat_file, callVars, titleVars,
                   printed, error_reported, flatten_raised>>

\* open(f"{base_filename}.txt", "w") ... f.write(tailored_resume)
WriteTextFile ==
    /\ pc = "write_txt"
    /\ txt_file' = TRUE
    /\ pc' = "docx_begin"
    /\ UNCHANGED <<docVars, docx_file, pdf_file, flat_file, callVars, titleVars,
                   printed, error_reported, flatten_raised>>

\* ------------------------------------------------- create_docx_resume
HasColon(chunk) == StrFind(chunk, ":") # 0
RawTitle(chunk) == StrSplitOnce(chunk, ":")[1]
RawBody(chunk) == StrSplitOnce(chunk, ":")[2]
SectionTitle(chunk) == NormalizeTitle(RawTitle(chunk))
\* content.strip().split('\n')
ContentLines(chunk) == StrSplit(StrStrip(RawBody(chunk)), "\n")

\* Document(), the two styles, re.split
DocxBegin ==
    /\ pc = "docx_begin"
    /\ doc' = <<>>
    /\ body_indent' = <<NoIndent, NoIndent>>
    /\ sections' = SplitSections(content)
    /\ idx' = 1
    /\ pc' = "docx_section"
    /\ UNCHANGED <<content, content_lines, li, current_entry, fmt_calls, fileVars,
                   callVars, titleVars, printed, error_reported, flatten_raised>>

\* a chunk with ':' whose title is WORK EXPERIENCE: heading, then the line loop
BeginWorkExperience ==
    /\ pc = "docx_section"
    /\ idx <= Len(sections)
    /\ HasColon(sections[idx])
    /\ SectionTitle(sections[idx]) = WORK_EXPERIENCE
    /\ doc' = Append(doc, HeadingBlock(SectionTitle(sections[idx])))
    /\ content_lines' = ContentLines(sections[idx])
    /\ li' = 1
    /\ current_entry' = <<>>
    /\ fmt_calls' = <<>>
    /\ pc' = "we_line"
    /\ UNCHANGED <<content, sections, idx, body_indent, fileVars, callVars, titleVars,
                   printed, error_reported, flatten_raised>>

\* the loop body with lines ahead of the first entry start thrown away
WorkExperienceLine_Discard ==
    /\ pc = "we_line"
    /\ li <= Len(content_lines)
    /\ LET line == content_lines[li]
       IN IF StrStrip(line) # <<>> /\ IsEntryStart(line)
          THEN /\ current_entry' = <<line>>
               /\ IF current_entry # <<>>
                  THEN /\ doc' = doc \o FormatJobEntry(current_entry)
                       /\ body_indent' = IndentAfter(current_entry, body_indent)
                       /\ fmt_calls' = Append(fmt_calls, current_entry)
                  ELSE UNCHANGED <<doc, body_indent, fmt_calls>>
          ELSE /\ current_entry' = IF StrStrip(line) # <<>> /\ current_entry # <<>>
                                   THEN Append(current_entry, line)
                                   ELSE current_entry
               /\ UNCHANGED <<doc, body_indent, fmt_calls>>
    /\ li' = li + 1
    /\ UNCHANGED <<pc, content, sections, idx, content_lines, fileVars, callVars,
                   titleVars, printed, error_reported, flatten_raised>>

\* one iteration of "for line in content_lines" in the WORK EXPERIENCE branch
WorkExperienceLine ==
    /\ pc = "we_line"
    /\ li <= Len(content_lines)
    /\ LET line == content_lines[li]
       IN IF StrStrip(line) # <<>> /\ IsEntryStart(line)
          THEN /\ current_entry' = <<line>>
               /\ IF current_entry # <<>>
                  THEN /\ doc' = doc \o FormatJobEntry(current_entry)
                       /\ body_indent' = IndentAfter(current_entry, body_indent)
                       /\ fmt_calls' = Append(fmt_calls, current_entry)
                  ELSE UNCHANGED <<doc, body_indent, fmt_calls>>
          ELSE /\ current_entry' = IF StrStrip(line) # <<>>
                                   THEN Append(current_entry, line)
                                   ELSE current_entry
               /\ UNCHANGED <<doc, body_indent, fmt_calls>>
    /\ li' = li + 1
    /\ UNCHANGED <<pc, content, sections, idx, content_lines, fileVars, callVars,
                   titleVars, printed, error_reported, flatten_raised>>

\* after the loop: the last entry, then the spacing paragraph
EndWorkExperience ==
    /\ pc = "we_line"
    /\ li > Len(content_lines)
    /\ IF current_entry # <<>>
       THEN /\ doc' = doc \o FormatJobEntry(current_entry) \o <<Separator>>
            /\ body_indent' = IndentAfter(current_entry, body_indent)
            /\ fmt_calls' = Append(fmt_calls, current_entry)
       ELSE /\ doc' = Append(doc, Separator)
            /\ UNCHANGED <<body_indent, fmt_calls>>
    /\ idx' = idx + 1
    /\ pc' = "docx_section"
    /\ UNCHANGED <<content, sections, content_lines, li, current_entry, fileVars,
                   callVars, titleVars, printed, error_reported, flatten_raised>>

\* a chunk with ':' and any other title: heading, a paragraph a line, spacing
OtherSection ==
    /\ pc = "docx_section"
    /\ idx <= Len(sections)
    /\ HasColon(sections[idx])
    /\ SectionTitle(sections[idx]) # WORK_EXPERIENCE
    /\ doc' = doc \o <<HeadingBlock(SectionTitle(sections[idx]))>>
                  \o BodyBlocks(ContentLines(sections[idx])) \o <<Separator>>
    /\ content_lines' = ContentLines(sections[idx])
    /\ fmt_calls' = <<>>
    /\ idx' = idx + 1
    /\ UNCHANGED <<pc, content, sections, li, current_entry, body_indent, fileVars,
                   callVars, titleVars, printed, error_reported, flatten_raised>>

\* the chunk without ':' split into a paragraph a line
HeaderInfo_PerLine ==
    /\ pc = "docx_section"
    /\ idx <= Len(sections)
    /\ ~HasColon(sections[idx])
    /\ doc' = doc \o BodyBlocks(StrSplit(StrStrip(sections[idx]), "\n")) \o <<Separator>>
    /\ content_lines' = <<>>
    /\ fmt_calls' = <<>>
    /\ idx' = idx + 1
    /\ UNCHANGED <<pc, content, sections, li, current_entry, body_indent, fileVars,
                   callVars, titleVars, printed, error_reported, flatten_raised>>

\* the chunk without ':' and without the spacing paragraph
HeaderInfo_NoSpacing ==
    /\ pc = "docx_section"
    /\ idx <= Len(sections)
    /\ ~HasColon(sections[idx])
    /\ doc' = Append(doc, BodyBlock(StrStrip(sections[idx])))
    /\ content_lines' = <<>>
    /\ fmt_calls' = <<>>
    /\ idx' = idx + 1
    /\ UNCHANGED <<pc, content, sections, li, current_entry, body_indent, fileVars,
                   callVars, titleVars, printed, error_reported, flatten_raised>>

\* a chunk without ':': one paragraph holding the whole chunk, then spacing
HeaderInfo ==
    /\ pc = "docx_section"
    /\ idx <= Len(sections)
    /\ ~HasColon(sections[idx])
    /\ doc' = doc \o <<BodyBlock(StrStrip(sections[idx])), Separator>>
    /\ content_lines' = <<>>
    /\ fmt_calls' = <<>>
    /\ idx' = idx + 1
    /\ UNCHANGED <<pc, content, sections, li, current_entry, body_indent, fileVars,
                   callVars, titleVars, printed, error_reported, flatten_raised>>

\* doc.save(docx_path)
DocxSave ==
    /\ pc = "docx_section"
    /\ idx > Len(sections)
    /\ docx_file' = TRUE
    /\ pc' = "convert"
    /\ UNCHANGED <<docVars, txt_file, pdf_file, flat_file, callVars, titleVars,
                   printed, error_reported, flatten_raised>>

\* ------------------------------------------------------ main, PDF steps
\* convert_to_pdf(): True with the PDF at pdf_path, or False
ConvertToPdf ==
    /\ pc = "convert"
    /\ \E ok \in BOOLEAN :
         /\ pdf_file' = IF ok THEN "converted" ELSE pdf_file
         /\ pc' = IF ok THEN "flatten" ELSE "print"
    /\ UNCHANGED <<docVars, txt_file, docx_file, flat_file, callVars, titleVars,
                   printed, error_reported, flatten_raised>>

\* flatten_pdf() whose failure leaves main through the outer except
FlattenPdf_HardFail ==
    /\ pc = "flatten"
    /\ \E outcome \in {"ok", "raise_before_write", "raise_in_write"} :
         /\ flat_file' = IF outcome = "raise_before_write" THEN flat_file ELSE TRUE
         /\ flatten_raised' = (outcome # "ok")
         /\ pc' = IF outcome = "ok" THEN "replace" ELSE "done"
         /\ error_reported' = IF outcome = "ok" THEN error_reported ELSE TRUE
    /\ UNCHANGED <<docVars, txt_file, docx_file, pdf_file, callVars, titleVars, printed>>

\* flatten_pdf(): writes the flattened file, or re-raises what went wrong
FlattenPdf ==
    /\ pc = "flatten"
    /\ \E outcome \in {"ok", "raise_before_write", "raise_in_write"} :
         /\ flat_file' = IF outcome = "raise_before_write" THEN flat_file ELSE TRUE
         /\ flatten_raised' = (outcome # "ok")
         /\ pc' = IF outcome = "ok" THEN "replace" ELSE "flatten_except"
    /\ UNCHANGED <<docVars, txt_file, docx_file, pdf_file, callVars, titleVars,
                   printed, error_reported>>

\* os.path.exists(flattened_pdf) / os.replace(flattened_pdf, pdf_path)
ReplacePdf ==
    /\ pc = "replace"
    /\ IF flat_file
       THEN /\ pdf_file' = "flattened"
            /\ flat_file' = FALSE
       ELSE UNCHANGED <<pdf_file, flat_file>>
    /\ pc' = "print"
    /\ UNCHANGED <<docVars, txt_file, docx_file, callVars, titleVars, printed,
                   error_reported, flatten_raised>>

\* except Exception as flatten_error: prints, probes the PDF, goes on
FlattenExcept ==
    /\ pc = "flatten_except"
    /\ pc' = "print"
    /\ UNCHANGED <<docVars, fileVars, callVars, titleVars, printed, error_reported,
                   flatten_raised>>

\* print("\nGenerated Resume:\n"); print(tailored_resume)
PrintResume ==
    /\ pc = "print"
    /\ printed' = TRUE
    /\ pc' = "done"
    /\ UNCHANGED <<docVars, fileVars, callVars, titleVars, error_reported,
                   flatten_raised>>

Next ==
    \/ LoadEnv
    \/ TestLibreOffice
    \/ LoadProfile
    \/ ReadJobPosting
    \/ ParseJobPosting
    \/ GenerateTailoredResume
    \/ WriteTextFile
    \/ DocxBegin
    \/ BeginWorkExperience
    \/ WorkExperienceLine
    \/ EndWorkExperience
    \/ OtherSection
    \/ HeaderInfo
    \/ DocxSave
    \/ ConvertToPdf
    \/ FlattenPdf
    \/ ReplacePdf
    \/ FlattenExcept
    \/ PrintResume

Spec == Init /\ [][Next]_vars

\* --------------------------------------- title normalizing on its own
InitTitle ==
    /\ pc = "title_in"
    /\ t_in \in Titles
    /\ t_once = <<>>
    /\ t_twice = <<>>
    /\ content = <<>>
    /\ sections = <<>>
    /\ idx = 0
    /\ doc = <<>>
    /\ content_lines = <<>>
    /\ li = 0
    /\ current_entry = <<>>
    /\ fmt_calls = <<>>
    /\ body_indent = <<NoIndent, NoIndent>>
    /\ txt_file = FALSE
    /\ docx_file = FALSE
    /\ pdf_file = "none"
    /\ flat_file = FALSE
    /\ printed = FALSE
    /\ error_reported = FALSE
    /\ parse_calls = 0
    /\ gen_calls = 0
    /\ parse_ok = FALSE
    /\ gen_ok = FALSE
    /\ flatten_raised = FALSE

\* the title of a chunk is standardized
StandardizeTitle ==
    /\ pc = "title_in"
    /\ t_once' = NormalizeTitle(t_in)
    /\ pc' = "title_once"
    /\ UNCHANGED <<docVars, fileVars, callVars, t_in, t_twice, printed,
                   error_reported, flatten_raised>>

\* the standardized title is standardized again
StandardizeAgain ==
    /\ pc = "title_once"
    /\ t_twice' = NormalizeTitle(t_once)
    /\ pc' = "title_twice"
    /\ UNCHANGED <<docVars, fileVars, callVars, t_in, t_once, printed,
                   error_reported, flatten_raised>>

NextTitle == StandardizeTitle \/ StandardizeAgain

SpecTitle == InitTitle /\ [][NextTitle]_vars

\* =============================================================== claims
IsSeparator(b) == b.style = "Normal" /\ b.runs = <<>>
IsHeading(b) == b.style = "ATS Heading"
IsBody(b) == b.style = "ATS Body"
SepPositions(d) == {p \in 1..Len(d) : IsSeparator(d[p])}
NumSeparators(d) == Cardinality(SepPositions(d))
GroupEnd(d, i) ==
    CHOOSE p \in SepPositions(d) : Cardinality({q \in SepPositions(d) : q <= p}) = i
GroupStart(d, i) == IF i = 1 THEN 1 ELSE GroupEnd(d, i - 1) + 1
\* the blocks of the i-th section, its closing separator left out
Group(d, i) == SubSeq(d, GroupStart(d, i), GroupEnd(d, i) - 1)

NonEmptyLines(lines) == SelectSeq(lines, LAMBDA l : StrStrip(l) # <<>>)
IsWorkExperience(chunk) == HasColon(chunk) /\ SectionTitle(chunk) = WORK_EXPERIENCE

\* the document is complete
Formatted == docx_file
\* the section sections[idx - 1] was a WORK EXPERIENCE section and is complete
JustDidWorkExperience ==
    /\ pc = "docx_section"
    /\ idx > 1
    /\ IsWorkExperience(sections[idx - 1])

\* the entry-start pattern as the regular expression reads: a run of letters
\* or whitespace (m characters), a run of whitespace, '|', whitespace
MatchesLetterPattern(line) ==
    \E k \in 1..Len(line) :
      /\ line[k] = "|"
      /\ k < Len(line)
      /\ IsSpace(line[k + 1])
      /\ \E m \in 1..(k - 2) :
           /\ \A i \in 1..m : IsLetter(line[i]) \/ IsSpace(line[i])
           /\ \A i \in (m + 1)..(k - 1) : IsSpace(line[i])

\* the entry-start pattern as the specification words it: word or space
\* characters, '|', a space
IsWordChar(c) == IsLetter(c) \/ c \in DigitSet \/ c = "_"
MatchesWordPattern(line) ==
    \E k \in 2..Len(line) :
      /\ line[k] = "|"
      /\ k < Len(line)
      /\ IsSpace(line[k + 1])
      /\ \A i \in 1..(k - 1) : IsWordChar(line[i]) \/ IsSpace(line[i])

\* the non-empty lines ahead of the first line matching the entry-start pattern
LeadingLines(lines) ==
    LET ne == NonEmptyLines(lines)
        starts == {k \in 1..Len(ne) : MatchesLetterPattern(ne[k])}
    IN IF starts = {} THEN ne ELSE SubSeq(ne, 1, SetMin(starts) - 1)

TextBeforePipe(line) ==
    IF StrFind(line, "|") = 0 THEN line ELSE SubSeq(line, 1, StrFind(line, "|") - 1)
TextAfterPipe(line) ==
    IF StrFind(line, "|") = 0 THEN <<>> ELSE SubSeq(line, StrFind(line, "|") + 1, Len(line))

\* ------------------------------------------------------------------ C1
\* C1 (as claimed): in a WORK EXPERIENCE section the non-empty lines ahead
\* of the first entry-start line are discarded: no entry handed to
\* _format_job_entry has such a line as its header, and the section's body
\* holds one block for each non-empty line from the first entry start on.
C1_LeadingLinesDiscarded ==
    JustDidWorkExperience =>
      /\ \A k \in 1..Len(fmt_calls) : MatchesLetterPattern(fmt_calls[k][1])
      /\ NumSeparators(doc) = idx - 1
      /\ Len(Group(doc, idx - 1)) - 1 =
           Len(NonEmptyLines(content_lines)) - Len(LeadingLines(content_lines))

\* C1 (amended): in a WORK EXPERIENCE section the non-empty lines ahead of
\* the first entry-start line are kept: they are the first entry handed to
\* _format_job_entry, the first of them is rendered as that entry's bold
\* company run, and every non-empty body line of the section gives one block.
C1_LeadingLinesFormEntry ==
    (JustDidWorkExperience /\ LeadingLines(content_lines) # <<>>) =>
      /\ fmt_calls # <<>>
      /\ fmt_calls[1] = LeadingLines(content_lines)
      /\ NumSeparators(doc) = idx - 1
      /\ Len(Group(doc, idx - 1)) - 1 = Len(NonEmptyLines(content_lines))
      /\ LET first == Group(doc, idx - 1)[2].runs[1]
         IN /\ first.bold
            /\ first.text = StrStrip(TextBeforePipe(LeadingLines(content_lines)[1]))

C1_Witness ==
    /\ JustDidWorkExperience
    /\ LeadingLines(content_lines) # <<>>
    /\ Len(LeadingLines(content_lines)) < Len(NonEmptyLines(content_lines))
    /\ Len(fmt_calls) >= 2

\* ------------------------------------------------------------------ C2
\* C2 (as claimed): an empty or whitespace-only chunk contributes no block,
\* so the empty text gives a document without blocks.
C2_EmptyChunksSkipped ==
    Formatted =>
      /\ content = <<>> => doc = <<>>
      /\ NumSeparators(doc) =
           Cardinality({i \in 1..Len(sections) : StrStrip(sections[i]) # <<>>})

\* ------------------------------------------------------------------ C3
\* C3 (as claimed): a Heading block is emitted only for a chunk that begins
\* with an ALL-CAPS heading followed by ':' and has a non-empty title; the
\* text ahead of the first heading line gets none, whatever it holds.
C3_HeadingOnlyForCapsHeading ==
    Formatted =>
      /\ NumSeparators(doc) = Len(sections)
      /\ \A i \in 1..Len(sections) :
           (\E j \in 1..Len(Group(doc, i)) : IsHeading(Group(doc, i)[j])) =>
             /\ HeadingAhead(sections[i], 1)
             /\ StrStrip(RawTitle(sections[i])) # <<>>

\* ------------------------------------------------------------------ C4
\* one Body block for each non-empty line, holding that line trimmed
BlockPerLine(lines) ==
    LET ne == NonEmptyLines(lines)
    IN IF ne = <<>> THEN <<>> ELSE [k \in 1..Len(ne) |-> BodyBlock(StrStrip(ne[k]))]

BodyOfGroup(g) == SelectSeq(g, LAMBDA b : ~IsHeading(b))

\* C4 (as claimed): every section other than WORK EXPERIENCE, the chunk
\* without a title included, is emitted as one Body block for each non-empty
\* body line, in order, holding that line trimmed (stated for the chunks
\* that hold text; blank chunks are the matter of C2).
C4_BlockPerLineEverywhere ==
    Formatted =>
      /\ NumSeparators(doc) = Len(sections)
      /\ \A i \in 1..Len(sections) :
           (~IsWorkExperience(sections[i]) /\ StrStrip(sections[i]) # <<>>) =>
             BodyOfGroup(Group(doc, i)) =
               BlockPerLine(StrSplit(IF HasColon(sections[i]) THEN RawBody(sections[i])
                                     ELSE sections[i], "\n"))

\* C4 (amended): a chunk holding ':' whose title is not WORK EXPERIENCE is
\* emitted as one Body block for each non-empty body line, in order, holding
\* that line trimmed; a chunk without ':' is emitted as exactly one Body block
\* whose single run holds the whole chunk trimmed, line breaks included.
C4_BlockPerLineTitledOnly ==
    Formatted =>
      /\ NumSeparators(doc) = Len(sections)
      /\ \A i \in 1..Len(sections) :
           /\ (HasColon(sections[i]) /\ ~IsWorkExperience(sections[i])) =>
                BodyOfGroup(Group(doc, i)) = BlockPerLine(StrSplit(RawBody(sections[i]), "\n"))
           /\ ~HasColon(sections[i]) =>
                /\ Len(Group(doc, i)) = 1
                /\ IsBody(Group(doc, i)[1])
                /\ Len(Group(doc, i)[1].runs) = 1
                /\ Group(doc, i)[1].runs[1].text = StrStrip(sections[i])

C4_Witness ==
    /\ Formatted
    /\ \E i \in 1..Len(sections) :
         /\ ~HasColon(sections[i])
         /\ Len(NonEmptyLines(StrSplit(sections[i], "\n"))) >= 2
    /\ \E i \in 1..Len(sections) :
         /\ HasColon(sections[i])
         /\ ~IsWorkExperience(sections[i])
         /\ NonEmptyLines(StrSplit(RawBody(sections[i]), "\n")) # <<>>

\* ------------------------------------------------------------------ C5
\* C5 (as claimed): a non-empty line starts a new job entry iff it matches
\* word-or-space characters, '|', a space; every other non-empty line joins
\* the entry opened by the closest entry-start line before it.  So each entry
\* handed to _format_job_entry is headed by a matching line and holds no
\* other matching line, and the entries together are the non-empty lines
\* (stated for every line but the section's first, which is the matter of C1).
C5_EntryStartIffWordPattern ==
    JustDidWorkExperience =>
      /\ Concat(fmt_calls) = NonEmptyLines(content_lines)
      /\ \A k \in 1..Len(fmt_calls) :
           \A j \in 1..Len(fmt_calls[k]) :
             (k > 1 \/ j > 1) => ((j = 1) <=> MatchesWordPattern(fmt_calls[k][j]))

\* C5 (amended): a non-empty line starts a new job entry iff it begins with
\* one or more letters or whitespace characters, then at least one
\* whitespace character, '|' and at least one whitespace character; every
\* other non-empty line is appended to the current entry, which is the one
\* opened by the closest entry-start line before it or, when there is none,
\* a leading entry made of those lines.
C5_EntryStartIffLetterPattern ==
    JustDidWorkExperience =>
      /\ Concat(fmt_calls) = NonEmptyLines(content_lines)
      /\ \A k \in 1..Len(fmt_calls) :
           /\ fmt_calls[k] # <<>>
           /\ k > 1 => MatchesLetterPattern(fmt_calls[k][1])
           /\ \A j \in 2..Len(fmt_calls[k]) : ~MatchesLetterPattern(fmt_calls[k][j])

C5_Witness ==
    /\ JustDidWorkExperience
    /\ Len(fmt_calls) >= 2
    /\ MatchesLetterPattern(fmt_calls[1][1])
    /\ \E k \in 1..Len(fmt_calls) :
         \E j \in 2..Len(fmt_calls[k]) : MatchesWordPattern(fmt_calls[k][j])

\* ------------------------------------------------------------------ C6
\* the blocks of one entry as C6 words them: header split at the first '|'
ClaimedEntryBlocks(entry) ==
    LET company == StrStrip(TextBeforePipe(entry[1]))
        dates == StrStrip(TextAfterPipe(entry[1]))
    IN <<Block("ATS Body",
               <<Run(company, TRUE, FALSE)>> \o
               (IF dates # <<>> THEN <<Run(DatesPrefix \o dates, FALSE, FALSE)>> ELSE <<>>))>>
       \o (IF Len(entry) > 1
           THEN <<Block("ATS Body", <<Run(StrStrip(entry[2]), FALSE, TRUE)>>)>>
           ELSE <<>>)
       \o (IF Len(entry) > 2
           THEN [k \in 1..(Len(entry) - 2) |-> BodyBlock(BulletPrefix \o StrStrip(entry[k + 2]))]
           ELSE <<>>)

\* C6 (as claimed): _format_job_entry splits the header at the first '|'
\* only: company before it (bold), the whole trimmed rest after it as dates
\* behind " | " (plain), then the title line italic, then one bullet block
\* for each further line; nothing of the header is lost.
C6_HeaderSplitAtFirstPipe ==
    JustDidWorkExperience =>
      /\ NumSeparators(doc) = idx - 1
      /\ Tail(Group(doc, idx - 1)) =
           Concat([k \in 1..Len(fmt_calls) |-> ClaimedEntryBlocks(fmt_calls[k])])

\* ------------------------------------------------------------------ C7
\* C7: standardizing a title twice gives what standardizing it once gives,
\* and the standardized title holds no lower-case letter.
C7_NormalizeIdempotentUpper ==
    /\ pc \in {"title_once", "title_twice"} => \A i \in 1..Len(t_once) : t_once[i] \notin LowerSet
    /\ pc = "title_twice" => t_twice = t_once

C7_Witness ==
    /\ pc = "title_twice"
    /\ StrContains(t_in, T_exp)
    /\ t_once = WORK_EXPERIENCE
    /\ t_twice = WORK_EXPERIENCE

\* ------------------------------------------------------------------ C8
\* the bold runs of a group, in order
RECURSIVE BoldTexts(_)
BoldTexts(g) ==
    IF g = <<>> THEN <<>>
    ELSE (IF Head(g).runs # <<>> /\ Head(g).runs[1].bold
          THEN <<Head(g).runs[1].text>> ELSE <<>>) \o BoldTexts(Tail(g))

\* the company of every line that heads an entry, in input order
HeaderCompanies(lines) ==
    LET ne == NonEmptyLines(lines)
        heads == SelectSeq([k \in 1..Len(ne) |-> <<k, ne[k]>>],
                           LAMBDA e : e[1] = 1 \/ MatchesLetterPattern(e[2]))
    IN IF ne = <<>> THEN <<>>
       ELSE [k \in 1..Len(heads) |-> StrStrip(TextBeforePipe(heads[k][2]))]

\* C8: the document is one group of blocks for each section, in input order,
\* each closed by exactly one blank separator; a Heading block is the first
\* block of its group and carries that section's title; the entries of a
\* WORK EXPERIENCE group come in input order.
C8_GroupsInOrder ==
    Formatted =>
      /\ NumSeparators(doc) = Len(sections)
      /\ doc # <<>>
      /\ IsSeparator(doc[Len(doc)])
      /\ \A p \in 1..Len(doc) : IsHeading(doc[p]) => (p = 1 \/ IsSeparator(doc[p - 1]))
      /\ \A i \in 1..Len(sections) :
           LET g == Group(doc, i)
           IN IF HasColon(sections[i])
              THEN /\ g # <<>>
                   /\ IsHeading(g[1])
                   /\ LET u == StrUpper(StrStrip(RawTitle(sections[i])))
                      IN \/ g[1].runs[1].text = u
                         \/ \E w \in {EXPERIENCE, EDUCATION, SKILLS} :
                              StrContains(u, w) /\ StrContains(g[1].runs[1].text, w)
                   /\ IsWorkExperience(sections[i]) =>
                        BoldTexts(g) = HeaderCompanies(StrSplit(StrStrip(RawBody(sections[i])), "\n"))
              ELSE /\ g # <<>>
                   /\ g[1].runs[1].text = StrStrip(sections[i])

C8_Witness ==
    /\ Formatted
    /\ Len(sections) >= 2
    /\ \E i \in 1..Len(sections) :
         /\ IsWorkExperience(sections[i])
         /\ Len(BoldTexts(Group(doc, i))) >= 2
    /\ \E i \in 1..Len(sections) : ~HasColon(sections[i])

\* ------------------------------------------------------------------ C9
\* C9: when flatten_pdf raises after a conversion that succeeded, main goes
\* on: the converted PDF stays as it was, the resume is printed at the end,
\* and the PDF is the flattened one only when flatten_pdf did not raise.
C9_FlattenFailureTolerated ==
    /\ flatten_raised => pc \in {"flatten_except", "print", "done"}
    /\ flatten_raised => pdf_file = "converted"
    /\ (flatten_raised /\ pc = "done") => (printed /\ ~error_reported)
    /\ pdf_file = "flattened" => ~flatten_raised

C9_Witness ==
    /\ pc = "done"
    /\ flatten_raised
    /\ pdf_file = "converted"
    /\ printed

\* ----------------------------------------------------------------- C10
\* C10: a failed text-generation call is reported and ends the run, neither
\* call is made twice, and the text, DOCX and PDF files exist only when both
\* calls have succeeded.
C10_OutputsOnlyAfterBothCalls ==
    /\ (txt_file \/ docx_file \/ pdf_file # "none" \/ flat_file) => (parse_ok /\ gen_ok)
    /\ parse_calls <= 1
    /\ gen_calls <= 1
    /\ (parse_calls = 1 /\ ~parse_ok) => (pc = "done" /\ error_reported /\ gen_calls = 0)
    /\ (gen_calls = 1 /\ ~gen_ok) => (pc = "done" /\ error_reported)

C10_Witness ==
    /\ pc = "done"
    /\ parse_ok
    /\ gen_calls = 1
    /\ ~gen_ok
    /\ error_reported
    /\ ~txt_file /\ ~docx_file /\ pdf_file = "none"

\* ----------------------------------------------------------------- C11
\* the indent a paragraph is laid out with: no paragraph carries an indent
\* of its own, so it is the indent of its style; only 'ATS Body' is written
EffectiveIndent(b, indent) ==
    IF b.style = "ATS Body" THEN indent ELSE <<NoIndent, NoIndent>>

IsBulletBlock(b) ==
    /\ IsBody(b)
    /\ Len(b.runs) = 1
    /\ Len(b.runs[1].text) >= Len(BulletPrefix)
    /\ SubSeq(b.runs[1].text, 1, Len(BulletPrefix)) = BulletPrefix

\* C11 (as claimed): the hanging indent (left 0.25in, first line -0.25in) is
\* on the bullet paragraphs only; every Heading block and every Body block
\* that is not a bullet, emitted before or after a bullet, has no left
\* indent and no first-line indent.
C11_IndentOnBulletsOnly ==
    \A p \in 1..Len(doc) :
      IF IsBulletBlock(doc[p])
      THEN EffectiveIndent(doc[p], body_indent) = <<Inches(InchQuarter), Inches(0 - InchQuarter)>>
      ELSE EffectiveIndent(doc[p], body_indent) = <<NoIndent, NoIndent>>

====
